---- MODULE Spec2Model ----
(***************************************************************************)
(* Video clip / processing-job lifecycle of Winbro Training Reels.         *)
(*                                                                         *)
(* The store is the pair of tables video_clips and video_processing_jobs   *)
(* of the migration (defaults, CHECK constraints, foreign key with ON      *)
(* DELETE CASCADE, updated_at triggers).  The client operations are the    *)
(* functions of the video API module; the status poller is the             *)
(* useVideoProcessingStatus hook.  Row-level security policies are not     *)
(* modelled: every request is taken to be permitted.                       *)
(***************************************************************************)
EXTENDS Integers, Sequences, FiniteSets, TLC

\* ------------------------------------------------------------------ bounds
MaxClips == 2      \* clip ids handed out by uuid_generate_v4()
MaxJobs  == 2      \* job ids handed out by uuid_generate_v4()
MaxTime  == 2      \* readings of the database clock NOW()
MaxFiles == 1      \* files in the list of the upload page
MaxCount == 2      \* value an analytics counter is incremented up to
MaxRecords == 2    \* transcripts, annotations and bookmarks created
MaxCalls == 2      \* view-count calls of one page load

\* ------------------------------------------------------------- value sets
NullTs   == -1         \* SQL NULL in a TIMESTAMPTZ column
NullText == "null"     \* SQL NULL in a TEXT column

ClipIds == 1..MaxClips
JobIds  == 1..MaxJobs

ClipStatuses       == {"draft", "review", "published", "archived"}
ProcessingStatuses == {"pending", "processing", "completed", "failed", "cancelled"}
JobTypes           == {"transcode", "thumbnail", "transcription", "hls_generation"}
JobStatuses        == {"queued", "running", "completed", "failed", "cancelled"}
TerminalStatuses   == {"completed", "failed", "cancelled"}

\* Job types a clip needs completed before it is publication-eligible.
RequiredJobTypes == {"transcode", "thumbnail", "hls_generation"}

Writers == {"w1", "w2"}   \* two processes reporting the outcome of one job

VARIABLES
  clips,     \* video_clips: clip id -> row
  jobs,      \* video_processing_jobs: job id -> row
  clipSeq,   \* number of clip ids generated so far
  jobSeq,    \* number of job ids generated so far
  now,       \* database clock
  last,      \* the last client request and how it ended for its caller
  writers,   \* per reporting process: the write it is about to make and its outcome
  watch,     \* the status query of useVideoProcessingStatus
  page,      \* the upload page: its file list, its uploads in flight, its form errors
  queries,   \* the query cache under videoKeys.processing: query key -> query
  records,   \* video_transcripts, video_annotations, video_bookmarks: table -> rows
  recordSeq, \* number of record ids generated so far
  viewer     \* the clip viewer page: its clip query, its renders, its view-count calls

\* The records that refer to clips, and the clip viewer.
rest == <<records, recordSeq, viewer>>

\* What no request for clips or jobs touches.
aux == <<writers, watch, page, queries, rest>>

vars == <<clips, jobs, clipSeq, jobSeq, now, last, aux>>

\* --------------------------------------------------------- row operations
Get(rec, f, default) == IF f \in DOMAIN rec THEN rec[f] ELSE default

\* UPDATE ... SET: the columns named in upd are overwritten.
Merge(row, upd) == [f \in DOMAIN row |-> IF f \in DOMAIN upd THEN upd[f] ELSE row[f]]

\* f with key k removed / with k |-> v added.
Without(f, ks) == [k \in DOMAIN f \ ks |-> f[k]]
With(f, k, v)  == [x \in DOMAIN f \cup {k} |-> IF x = k THEN v ELSE f[x]]

\* ----------------------------------------------------------- video_clips
\* Row stored for an INSERT of clipData: column defaults fill what is absent.
ClipRow(clipData) ==
  [ duration_seconds  |-> Get(clipData, "duration_seconds", 0),
    processing_status |-> Get(clipData, "processing_status", "pending"),
    status            |-> Get(clipData, "status", "draft"),
    published_at      |-> Get(clipData, "published_at", NullTs),
    view_count        |-> Get(clipData, "view_count", 0),
    download_count    |-> Get(clipData, "download_count", 0),
    bookmark_count    |-> Get(clipData, "bookmark_count", 0),
    updated_at        |-> now ]

\* The constraints of video_clips without the 30 s cap.
ClipChecksNoCap(row) ==
  /\ row.duration_seconds > 0
  /\ row.processing_status \in ProcessingStatuses
  /\ row.status \in ClipStatuses

\* CHECK constraints of video_clips.
ClipChecks(row) ==
  /\ row.duration_seconds > 0 /\ row.duration_seconds <= 30
  /\ row.processing_status \in ProcessingStatuses
  /\ row.status \in ClipStatuses

\* An UPDATE that clears published_at when the clip leaves published.
ClipUpdatedRowClearsPublishedAt(row, updates) ==
  LET new == [Merge(row, updates) EXCEPT !.updated_at = now]
  IN  IF row.status = "published" /\ new.status # "published"
         THEN [new EXCEPT !.published_at = NullTs]
         ELSE new

\* update_video_clips_updated_at: BEFORE UPDATE trigger.
ClipUpdatedRow(row, updates) == [Merge(row, updates) EXCEPT !.updated_at = now]

\* ------------------------------------------------- video_processing_jobs
\* Row stored for an INSERT of jobData.
JobRow(jobData) ==
  [ clip_id             |-> jobData.clip_id,
    job_type            |-> jobData.job_type,
    status              |-> Get(jobData, "status", "queued"),
    progress_percentage |-> Get(jobData, "progress_percentage", 0),
    error_message       |-> Get(jobData, "error_message", NullText),
    started_at          |-> Get(jobData, "started_at", NullTs),
    completed_at        |-> Get(jobData, "completed_at", NullTs),
    updated_at          |-> now ]

\* CHECK constraints and the foreign key of video_processing_jobs.
JobChecks(row) ==
  /\ row.clip_id \in DOMAIN clips
  /\ row.job_type \in JobTypes
  /\ row.status \in JobStatuses
  /\ row.progress_percentage >= 0 /\ row.progress_percentage <= 100

\* update_video_processing_jobs_updated_at: BEFORE UPDATE trigger.
JobUpdatedRow(row, updates) == [Merge(row, updates) EXCEPT !.updated_at = now]

JobsOfClip(c) == {j \in DOMAIN jobs : jobs[j].clip_id = c}

Called(op, id, result) == last' = [op |-> op, id |-> id, result |-> result]

\* ------------------------------------------------------ client operations
\* createVideoClip: INSERT ... RETURNING; any store error is thrown.
CreateVideoClip(clipData, ok) ==
  LET row == ClipRow(clipData)
      id  == clipSeq + 1
  IN  /\ clipSeq < MaxClips
      /\ IF ok /\ ClipChecks(row)
            THEN /\ clips' = With(clips, id, row)
                 /\ clipSeq' = id
                 /\ Called("createVideoClip", id, "ok")
            ELSE /\ UNCHANGED <<clips, clipSeq>>
                 /\ Called("createVideoClip", 0, "Error")
      /\ UNCHANGED <<jobs, jobSeq, now, aux>>

\* updateVideoClip: UPDATE ... WHERE id = clipId RETURNING single row.
UpdateVideoClip(clipId, updates, ok) ==
  /\ IF ok /\ clipId \in DOMAIN clips /\ ClipChecks(ClipUpdatedRow(clips[clipId], updates))
        THEN /\ clips' = [clips EXCEPT ![clipId] = ClipUpdatedRow(@, updates)]
             /\ Called("updateVideoClip", clipId, "ok")
        ELSE /\ UNCHANGED clips
             /\ Called("updateVideoClip", clipId, "Error")
  /\ UNCHANGED <<jobs, clipSeq, jobSeq, now, aux>>

\* A DELETE of the clip and its jobs that leaves the transcripts,
\* annotations and bookmarks of the clip in place.
DeleteVideoClipKeepsRecords(clipId, ok) ==
  /\ IF ok
        THEN /\ clips' = Without(clips, {clipId})
             /\ jobs' = Without(jobs, JobsOfClip(clipId))
             /\ Called("deleteVideoClip", clipId, "ok")
        ELSE /\ UNCHANGED <<clips, jobs>>
             /\ Called("deleteVideoClip", clipId, "Error")
  /\ UNCHANGED <<clipSeq, jobSeq, now, aux>>

\* deleteVideoClip: DELETE ... WHERE id = clipId; the jobs, transcripts,
\* annotations and bookmarks of the clip go with it (ON DELETE CASCADE).
DeleteVideoClip(clipId, ok) ==
  /\ IF ok
        THEN /\ clips' = Without(clips, {clipId})
             /\ jobs' = Without(jobs, JobsOfClip(clipId))
             /\ records' = [t \in DOMAIN records |->
                              {r \in records[t] : r.clip_id # clipId}]
             /\ Called("deleteVideoClip", clipId, "ok")
        ELSE /\ UNCHANGED <<clips, jobs, records>>
             /\ Called("deleteVideoClip", clipId, "Error")
  /\ UNCHANGED <<clipSeq, jobSeq, now, writers, watch, page, queries, recordSeq, viewer>>

\* The job-creation statement of initiateVideoUpload for clip id clipId:
\* a plain INSERT of a queued transcode job.
NewJobData(clipId) == [clip_id |-> clipId, job_type |-> "transcode", status |-> "queued"]

\* duration_seconds written by initiateVideoUpload.
InitialDuration == 0

\* clipData built by initiateVideoUpload from the form and the file.
UploadClipData(formData) ==
  [ duration_seconds  |-> InitialDuration,
    processing_status |-> "pending" ]

\* The store requests of initiateVideoUpload: create the clip, take the
\* upload URL, create the job.
UploadRequest(formData, okClip, okJob) ==
  LET row == ClipRow(UploadClipData(formData))
      cid == clipSeq + 1
      jid == jobSeq + 1
  IN  /\ clipSeq < MaxClips
      /\ jobSeq < MaxJobs
      /\ IF okClip /\ ClipChecks(row)
            THEN /\ clips' = With(clips, cid, row)
                 /\ clipSeq' = cid
                 /\ IF okJob
                       THEN /\ jobs' = With(jobs, jid, JobRow(NewJobData(cid)))
                            /\ jobSeq' = jid
                            /\ Called("initiateVideoUpload", cid, "ok")
                       ELSE /\ UNCHANGED <<jobs, jobSeq>>
                            /\ Called("initiateVideoUpload", cid, "Error")
            ELSE /\ UNCHANGED <<clips, clipSeq, jobs, jobSeq>>
                 /\ Called("initiateVideoUpload", 0, "Error")
      /\ UNCHANGED now

\* initiateVideoUpload called on its own.
InitiateVideoUpload(formData, okClip, okJob) ==
  /\ UploadRequest(formData, okClip, okJob)
  /\ UNCHANGED aux

\* completeVideoUpload that also sets progress_percentage back to 0.
CompleteVideoUploadResetsProgress(clipId, ok) ==
  /\ IF ok
        THEN /\ jobs' = [j \in DOMAIN jobs |->
                           IF jobs[j].clip_id = clipId /\ jobs[j].job_type = "transcode"
                             THEN JobUpdatedRow(jobs[j], [status |-> "running", started_at |-> now,
                                                          progress_percentage |-> 0])
                             ELSE jobs[j]]
             /\ Called("completeVideoUpload", clipId, "ok")
        ELSE /\ UNCHANGED jobs
             /\ Called("completeVideoUpload", clipId, "Error")
  /\ UNCHANGED <<clips, clipSeq, jobSeq, now, aux>>

\* completeVideoUpload: UPDATE video_processing_jobs SET status = 'running',
\* started_at = now WHERE clip_id = clipId AND job_type = 'transcode'.
CompleteVideoUpload(clipId, ok) ==
  /\ IF ok
        THEN /\ jobs' = [j \in DOMAIN jobs |->
                           IF jobs[j].clip_id = clipId /\ jobs[j].job_type = "transcode"
                             THEN JobUpdatedRow(jobs[j], [status |-> "running", started_at |-> now])
                             ELSE jobs[j]]
             /\ Called("completeVideoUpload", clipId, "ok")
        ELSE /\ UNCHANGED jobs
             /\ Called("completeVideoUpload", clipId, "Error")
  /\ UNCHANGED <<clips, clipSeq, jobSeq, now, aux>>

\* increment_video_view_count and its two siblings, called through rpc:
\* one atomic UPDATE adding 1 to the counter column of clip clipId.
CounterRequest(op, column, clipId, ok) ==
  /\ IF ok
        THEN /\ clips' = [c \in DOMAIN clips |->
                            IF c = clipId
                              THEN ClipUpdatedRow(clips[c], With(<<>>, column, clips[c][column] + 1))
                              ELSE clips[c]]
             /\ Called(op, clipId, "ok")
        ELSE /\ UNCHANGED clips
             /\ Called(op, clipId, "Error")
  /\ UNCHANGED <<jobs, clipSeq, jobSeq, now>>

\* The rpc called on its own, outside any page.
IncrementCounter(op, column, clipId, ok) ==
  CounterRequest(op, column, clipId, ok) /\ UNCHANGED aux

IncrementVideoViewCount(clipId, ok) ==
  /\ clipId \in DOMAIN clips => clips[clipId].view_count < MaxCount
  /\ IncrementCounter("incrementVideoViewCount", "view_count", clipId, ok)

IncrementVideoDownloadCount(clipId, ok) ==
  /\ clipId \in DOMAIN clips => clips[clipId].download_count < MaxCount
  /\ IncrementCounter("incrementVideoDownloadCount", "download_count", clipId, ok)

IncrementVideoBookmarkCount(clipId, ok) ==
  /\ clipId \in DOMAIN clips => clips[clipId].bookmark_count < MaxCount
  /\ IncrementCounter("incrementVideoBookmarkCount", "bookmark_count", clipId, ok)

\* ------------------------- video_transcripts, video_annotations, bookmarks
RecordTables == {"video_transcripts", "video_annotations", "video_bookmarks"}

RecordIds == 1..MaxRecords

NoRecords == [t \in RecordTables |-> {}]

\* INSERT into a table whose clip_id is a foreign key to video_clips.
InsertRecord(op, table, clipId, ok) ==
  LET id == recordSeq + 1
  IN  /\ recordSeq < MaxRecords
      /\ IF ok /\ clipId \in DOMAIN clips
            THEN /\ records' = [records EXCEPT
                                  ![table] = @ \cup {[id |-> id, clip_id |-> clipId]}]
                 /\ recordSeq' = id
                 /\ Called(op, id, "ok")
            ELSE /\ UNCHANGED <<records, recordSeq>>
                 /\ Called(op, 0, "Error")
      /\ UNCHANGED <<clips, jobs, clipSeq, jobSeq, now,
                     writers, watch, page, queries, viewer>>

\* DELETE ... WHERE id = recordId; deleting no row is not an error.
DeleteRecord(op, table, recordId, ok) ==
  /\ IF ok
        THEN /\ records' = [records EXCEPT ![table] = {r \in @ : r.id # recordId}]
             /\ Called(op, recordId, "ok")
        ELSE /\ UNCHANGED records
             /\ Called(op, recordId, "Error")
  /\ UNCHANGED <<clips, jobs, clipSeq, jobSeq, now,
                 writers, watch, page, queries, recordSeq, viewer>>

\* upsertVideoTranscript: transcriptData without an id inserts a row;
\* with the id of a stored transcript (id # 0) it rewrites that row,
\* clip_id included.
UpsertVideoTranscript(clipId, id, ok) ==
  IF id = 0
    THEN InsertRecord("upsertVideoTranscript", "video_transcripts", clipId, ok)
    ELSE /\ \E r \in records["video_transcripts"] : r.id = id
         /\ IF ok /\ clipId \in DOMAIN clips
               THEN /\ records' = [records EXCEPT !["video_transcripts"] =
                                     {r \in @ : r.id # id} \cup {[id |-> id, clip_id |-> clipId]}]
                    /\ Called("upsertVideoTranscript", id, "ok")
               ELSE /\ UNCHANGED records
                    /\ Called("upsertVideoTranscript", 0, "Error")
         /\ UNCHANGED <<clips, jobs, clipSeq, jobSeq, now,
                        writers, watch, page, queries, recordSeq, viewer>>

CreateVideoAnnotation(clipId, ok) ==
  InsertRecord("createVideoAnnotation", "video_annotations", clipId, ok)

DeleteVideoAnnotation(annotationId, ok) ==
  DeleteRecord("deleteVideoAnnotation", "video_annotations", annotationId, ok)

CreateVideoBookmark(clipId, ok) ==
  InsertRecord("createVideoBookmark", "video_bookmarks", clipId, ok)

DeleteVideoBookmark(bookmarkId, ok) ==
  DeleteRecord("deleteVideoBookmark", "video_bookmarks", bookmarkId, ok)

\* ------------------------------------------------------- clip viewer page
\* clip: the id in the route (0: the page is not open); loaded: useVideoClip
\* has its data; effect: a render was committed whose effects have not run
\* yet; calls: incrementViewCount.mutate calls since the page was opened;
\* pending: view-count requests in flight.
NoViewer == [clip |-> 0, loaded |-> FALSE, effect |-> FALSE, calls |-> 0, pending |-> 0]

ViewerUnchanged ==
  UNCHANGED <<clips, jobs, clipSeq, jobSeq, now, last,
              writers, watch, page, queries, records, recordSeq>>

\* The page is opened for clip clipId: first render, the clip not yet loaded.
OpenViewer(clipId) ==
  /\ viewer.clip = 0
  /\ viewer' = [NoViewer EXCEPT !.clip = clipId, !.effect = TRUE]
  /\ ViewerUnchanged

\* getVideoClip returns the clip: the page renders with its data.
ClipLoads ==
  /\ viewer.clip \in DOMAIN clips
  /\ ~viewer.loaded
  /\ viewer' = [viewer EXCEPT !.loaded = TRUE, !.effect = TRUE]
  /\ ViewerUnchanged

\* The view-count effect after a render. Its dependency incrementViewCount
\* is the object useMutation returns, a new one at every render, so the
\* effect runs after every render; mutate puts the mutation in the pending
\* state, which renders the page again.
RunEffect ==
  /\ viewer.clip # 0
  /\ viewer.effect
  /\ IF viewer.loaded
        THEN /\ viewer.calls < MaxCalls
             /\ viewer' = [viewer EXCEPT !.calls = @ + 1, !.pending = @ + 1,
                                         !.effect = TRUE]
        ELSE viewer' = [viewer EXCEPT !.effect = FALSE]
  /\ ViewerUnchanged

\* A view-count request of the page ends: the mutation goes to success or
\* error, which renders the page again.
ViewCountSettles(ok) ==
  /\ viewer.clip # 0
  /\ viewer.pending > 0
  /\ viewer.clip \in DOMAIN clips => clips[viewer.clip].view_count < MaxCount
  /\ CounterRequest("incrementVideoViewCount", "view_count", viewer.clip, ok)
  /\ viewer' = [viewer EXCEPT !.pending = @ - 1, !.effect = TRUE]
  /\ UNCHANGED <<writers, watch, page, queries, records, recordSeq>>

\* The user leaves the page.
CloseViewer ==
  /\ viewer.clip # 0
  /\ viewer' = NoViewer
  /\ ViewerUnchanged

\* ------------------------------------------------------------ upload page
\* Text of n characters.
RECURSIVE Text(_)
Text(n) ==
  IF n = 0 THEN ""
  ELSE IF n % 2 = 1 THEN "x" \o Text(n - 1)
  ELSE LET half == Text(n \div 2) IN half \o half

SkillLevels == {"beginner", "intermediate", "advanced"}

\* An optional form field left out.
Absent == "undefined"

\* uploadSchema without the upper limit of the title.
UploadSchemaNoTitleMax(f) ==
  (IF Len(f.title) >= 1 THEN {} ELSE {"title"})
    \cup (IF f.description = Absent \/ Len(f.description) <= 500 THEN {} ELSE {"description"})
    \cup (IF f.skill_level = Absent \/ f.skill_level \in SkillLevels THEN {} ELSE {"skill_level"})

\* uploadSchema: the fields of form f that fail the validation.
UploadSchema(f) ==
  (IF Len(f.title) >= 1 /\ Len(f.title) <= 100 THEN {} ELSE {"title"})
    \cup (IF f.description = Absent \/ Len(f.description) <= 500 THEN {} ELSE {"description"})
    \cup (IF f.skill_level = Absent \/ f.skill_level \in SkillLevels THEN {} ELSE {"skill_level"})

FileIds == 1..MaxFiles

\*   files   status of each file of the list ("none": not in the list)
\*   calls   the initiateVideoUpload calls in flight: file id -> form data
\*   errors  form fields with a validation error
NoPage == [files  |-> [i \in FileIds |-> "none"],
           calls  |-> <<>>,
           errors |-> {}]

\* onDrop: a file is added to the list.
AddFile(i) ==
  /\ page.files[i] = "none"
  /\ i \notin DOMAIN page.calls
  /\ page' = [page EXCEPT !.files[i] = "pending"]
  /\ UNCHANGED <<clips, jobs, clipSeq, jobSeq, now, last, writers, watch, queries, rest>>

\* removeFile: a file is taken from the list.
RemoveFile(i) ==
  /\ page.files[i] # "none"
  /\ page' = [page EXCEPT !.files[i] = "none"]
  /\ UNCHANGED <<clips, jobs, clipSeq, jobSeq, now, last, writers, watch, queries, rest>>

\* The form is submitted with values f: handleSubmit validates them with
\* uploadSchema and calls onSubmit only if they pass; onSubmit starts
\* uploadFile for every pending file, which marks the file uploading and
\* calls initiateVideoUpload with the form values.
Submit(f) ==
  LET errors  == UploadSchema(f)
      pending == {i \in FileIds : page.files[i] = "pending"}
  IN  /\ page' = IF errors # {}
                   THEN [page EXCEPT !.errors = errors]
                   ELSE [files  |-> [i \in FileIds |->
                                      IF i \in pending THEN "uploading" ELSE page.files[i]],
                         calls  |-> [i \in DOMAIN page.calls \cup pending |->
                                      IF i \in pending THEN f ELSE page.calls[i]],
                         errors |-> {}]
      /\ UNCHANGED <<clips, jobs, clipSeq, jobSeq, now, last, writers, watch, queries, rest>>

\* The initiateVideoUpload call of file i ends: the file is marked
\* processing when it returned, error when it threw.
UploadReturns(i, okClip, okJob) ==
  /\ i \in DOMAIN page.calls
  /\ UploadRequest(page.calls[i], okClip, okJob)
  /\ page' = [page EXCEPT
                !.calls = Without(@, {i}),
                !.files[i] = IF @ = "none" THEN "none"
                             ELSE IF last'.result = "ok" THEN "processing" ELSE "error"]
  /\ UNCHANGED <<writers, watch, queries, rest>>

\* ------------------------------------------- processing service and clock
\* A job row is inserted for an existing clip.
CreateProcessingJob(jobData) ==
  LET row == JobRow(jobData)
      id  == jobSeq + 1
  IN  /\ jobSeq < MaxJobs
      /\ JobChecks(row)
      /\ jobs' = With(jobs, id, row)
      /\ jobSeq' = id
      /\ UNCHANGED <<clips, clipSeq, now, last, aux>>

\* Conditional update of one job: applied only if its status is expected.
ConditionalUpdate(j, expected, updates) ==
  /\ j \in DOMAIN jobs
  /\ jobs[j].status \in expected
  /\ JobChecks(JobUpdatedRow(jobs[j], updates))
  /\ jobs' = [jobs EXCEPT ![j] = JobUpdatedRow(@, updates)]

CompletedUpdate == [status |-> "completed", completed_at |-> now,
                    progress_percentage |-> 100, error_message |-> NullText]
FailedUpdate    == [status |-> "failed", completed_at |-> now, error_message |-> "error"]
CancelledUpdate == [status |-> "cancelled", completed_at |-> now]

ServiceStart(j) ==
  /\ ConditionalUpdate(j, {"queued"}, [status |-> "running", started_at |-> now])
  /\ UNCHANGED <<clips, clipSeq, jobSeq, now, last, aux>>

ServiceProgress(j, p) ==
  /\ j \in DOMAIN jobs
  /\ p > jobs[j].progress_percentage
  /\ ConditionalUpdate(j, {"running"}, [progress_percentage |-> p])
  /\ UNCHANGED <<clips, clipSeq, jobSeq, now, last, aux>>

ServiceComplete(j) ==
  /\ ConditionalUpdate(j, {"running"}, CompletedUpdate)
  /\ UNCHANGED <<clips, clipSeq, jobSeq, now, last, aux>>

ServiceFail(j) ==
  /\ ConditionalUpdate(j, {"running"}, FailedUpdate)
  /\ UNCHANGED <<clips, clipSeq, jobSeq, now, last, aux>>

ServiceCancel(j) ==
  /\ ConditionalUpdate(j, {"queued", "running"}, CancelledUpdate)
  /\ UNCHANGED <<clips, clipSeq, jobSeq, now, last, aux>>

\* Two processes report the outcome of the same running job at the same
\* time: w1 reports completion, w2 reports failure.  Each has seen the job
\* running and then issues its conditional update.
WriterUpdate(w) == IF w = "w1" THEN CompletedUpdate ELSE FailedUpdate

ReportOutcome(j) ==
  /\ j \in DOMAIN jobs
  /\ jobs[j].status = "running"
  /\ \A w \in Writers : writers[w].state = "idle"
  /\ writers' = [w \in Writers |-> [job |-> j, state |-> "ready"]]
  /\ UNCHANGED <<clips, jobs, clipSeq, jobSeq, now, last, watch, page, queries, rest>>

WriterCommit(w) ==
  LET j == writers[w].job
  IN  /\ writers[w].state = "ready"
      /\ IF j \in DOMAIN jobs /\ jobs[j].status = "running"
            THEN /\ jobs' = [jobs EXCEPT ![j] = JobUpdatedRow(@, WriterUpdate(w))]
                 /\ writers' = [writers EXCEPT ![w].state = "applied"]
            ELSE /\ UNCHANGED jobs
                 /\ writers' = [writers EXCEPT ![w].state = "rejected"]
      /\ UNCHANGED <<clips, clipSeq, jobSeq, now, last, watch, page, queries, rest>>

\* The database clock advances.
Tick ==
  /\ now < MaxTime
  /\ now' = now + 1
  /\ UNCHANGED <<clips, jobs, clipSeq, jobSeq, last, aux>>

\* ---------------------------------------------------------- status poller
\* useVideoProcessingStatus(jobId, enabled): one query under the key
\* videoKeys.processing(jobId).
\*   job      the watched job id (0: the hook is not mounted)
\*   enabled  the enabled option
\*   data     status of the last successful fetch ("none": no data yet)
\*   fetching a status fetch is in flight
\*   failures failed attempts of the fetch in flight
\*   error    the last fetch gave up after its retries (query status error)
\*   timer    the refetch interval is armed
\*   cause    what started the fetch issued last
\*   req      flips with every status request sent
NoWatch == [job |-> 0, enabled |-> FALSE, data |-> "none", fetching |-> FALSE,
            failures |-> 0, error |-> FALSE, timer |-> FALSE, cause |-> "none", req |-> 0]

\* retry option of the query client.
QueryRetry == 1

\* refetchInterval that forgets the cancelled status.
RefetchIntervalNoCancelled(data) ==
  IF data = "completed" \/ data = "failed" THEN FALSE ELSE TRUE

\* refetchInterval: FALSE when the polling stops, TRUE for the 2 s interval.
RefetchInterval(data) ==
  IF data = "completed" \/ data = "failed" \/ data = "cancelled" THEN FALSE ELSE TRUE

\* An interval that keeps running when the query is disabled.
TimerAfterIgnoresEnabled(w) == RefetchInterval(w.data)

\* The interval is set again after every change of the query: it runs when
\* the query is enabled and refetchInterval gives a delay.
TimerAfter(w) == w.enabled /\ RefetchInterval(w.data)

\* A fetch starts: a status request is sent; a query without data leaves
\* the error status.
Request(w, cause) ==
  [w EXCEPT !.fetching = TRUE, !.failures = 0, !.cause = cause, !.req = 1 - @,
            !.error = IF w.data = "none" THEN FALSE ELSE @]

\* The hook is mounted for job j: without data the query fetches at once.
Mount(j, enabled) ==
  /\ watch.job = 0
  /\ LET w == [NoWatch EXCEPT !.job = j, !.enabled = enabled]
     IN  watch' = IF enabled THEN [Request(w, "mount") EXCEPT !.timer = TimerAfter(w)]
                             ELSE w
  /\ UNCHANGED <<clips, jobs, clipSeq, jobSeq, now, last, writers, page, queries, rest>>

\* The 2 s interval fires: a fetch starts unless one is in flight.
PollTick ==
  /\ watch.timer
  /\ ~watch.fetching
  /\ watch' = Request(watch, "interval")
  /\ UNCHANGED <<clips, jobs, clipSeq, jobSeq, now, last, writers, page, queries, rest>>

\* getVideoProcessingStatus returns the row of the job.
FetchSucceeds ==
  /\ watch.fetching
  /\ watch.job \in DOMAIN jobs
  /\ LET w == [watch EXCEPT !.fetching = FALSE, !.failures = 0, !.error = FALSE,
                            !.data = jobs[watch.job].status]
     IN  watch' = [w EXCEPT !.timer = TimerAfter(w)]
  /\ UNCHANGED <<clips, jobs, clipSeq, jobSeq, now, last, writers, page, queries, rest>>

\* getVideoProcessingStatus throws (no such row, or the store is
\* unreachable): the fetch is retried QueryRetry times, then gives up.
FetchFails ==
  /\ watch.fetching
  /\ IF watch.failures < QueryRetry
        THEN watch' = [watch EXCEPT !.failures = @ + 1, !.req = 1 - @]
        ELSE LET w == [watch EXCEPT !.fetching = FALSE, !.failures = 0, !.error = TRUE]
             IN  watch' = [w EXCEPT !.timer = TimerAfter(w)]
  /\ UNCHANGED <<clips, jobs, clipSeq, jobSeq, now, last, writers, page, queries, rest>>

\* useDeleteVideoAnnotation / useDeleteVideoBookmark succeed and invalidate
\* every query under videoKeys.all: an active query is fetched again (a
\* fetch in flight that already has data is cancelled and restarted).
InvalidateVideoQueries ==
  /\ watch.job # 0
  /\ watch.enabled
  /\ watch' = IF watch.fetching /\ watch.data = "none"
                THEN watch
                ELSE Request(watch, "invalidate")
  /\ watch' # watch
  /\ UNCHANGED <<clips, jobs, clipSeq, jobSeq, now, last, writers, page, queries, rest>>

\* The hook is rendered again with another value of enabled.  Disabled, the
\* interval is cleared and a fetch in flight goes on; enabled again, the
\* query fetches if it has no data or stale data and no fetch in flight.
SetEnabled(enabled, stale) ==
  /\ watch.job # 0
  /\ watch.enabled # enabled
  /\ LET w == [watch EXCEPT !.enabled = enabled]
     IN  watch' = IF enabled /\ ~w.fetching /\ (w.data = "none" \/ stale)
                    THEN [Request(w, "enable") EXCEPT !.timer = TimerAfter(w)]
                    ELSE [w EXCEPT !.timer = TimerAfter(w)]
  /\ UNCHANGED <<clips, jobs, clipSeq, jobSeq, now, last, writers, page, queries, rest>>

\* The component using the hook unmounts.
Unmount ==
  /\ watch.job # 0
  /\ watch' = NoWatch
  /\ UNCHANGED <<clips, jobs, clipSeq, jobSeq, now, last, writers, page, queries, rest>>

\* -------------------------------------------------- several hook instances
\* Instances of useVideoProcessingStatus mounted in one QueryClient.
Observers == {"o1", "o2"}

\* A query key that differs from one hook instance to the other.
ProcessingKeyPerInstance(o, jobId) == <<"videos", "processing", jobId, o>>

\* videoKeys.processing(jobId): the key instance o subscribes under.
ProcessingKey(o, jobId) == <<"videos", "processing", jobId>>

QueryKeys == {ProcessingKey(o, j) : o \in Observers, j \in JobIds}

\* The job a query fetches: the jobId its queryFn closes over.
JobOfKey(k) == k[3]

\*   observers the hook instances subscribed to the query
\*   data      status of the last successful fetch ("none": no data yet)
\*   inflight  status requests sent and not yet answered
\*   failures  failed attempts of the fetch in flight
NoQuery == [observers |-> {}, data |-> "none", inflight |-> 0, failures |-> 0]

Subscribed(o) == \E k \in QueryKeys : o \in queries[k].observers

\* Instance o mounts for job j: it subscribes to the query of its key, and
\* the query fetches if it has no data or stale data and no fetch in flight.
Subscribe(o, j, stale) ==
  LET k == ProcessingKey(o, j)
      q == queries[k]
  IN  /\ ~Subscribed(o)
      /\ queries' = [queries EXCEPT ![k] =
            IF q.inflight = 0 /\ (q.data = "none" \/ stale)
              THEN [q EXCEPT !.observers = @ \cup {o}, !.inflight = 1, !.failures = 0]
              ELSE [q EXCEPT !.observers = @ \cup {o}]]
      /\ UNCHANGED <<clips, jobs, clipSeq, jobSeq, now, last, writers, watch, page, rest>>

\* Instance o unmounts: its interval goes with it; a fetch in flight is
\* left to end, without further retries once nobody observes the query.
Unsubscribe(o) ==
  /\ \E k \in QueryKeys :
        /\ o \in queries[k].observers
        /\ queries' = [queries EXCEPT ![k].observers = @ \ {o}]
  /\ UNCHANGED <<clips, jobs, clipSeq, jobSeq, now, last, writers, watch, page, rest>>

\* The 2 s interval of instance o fires: its query fetches unless a fetch
\* is in flight.
IntervalFires(o) ==
  /\ \E k \in QueryKeys :
        /\ o \in queries[k].observers
        /\ RefetchInterval(queries[k].data)
        /\ queries[k].inflight = 0
        /\ queries' = [queries EXCEPT ![k].inflight = 1, ![k].failures = 0]
  /\ UNCHANGED <<clips, jobs, clipSeq, jobSeq, now, last, writers, watch, page, rest>>

\* getVideoProcessingStatus returns the row of the job of query k.
StatusArrives(k) ==
  /\ queries[k].inflight > 0
  /\ JobOfKey(k) \in DOMAIN jobs
  /\ queries' = [queries EXCEPT ![k].inflight = @ - 1, ![k].failures = 0,
                                 ![k].data = jobs[JobOfKey(k)].status]
  /\ UNCHANGED <<clips, jobs, clipSeq, jobSeq, now, last, writers, watch, page, rest>>

\* getVideoProcessingStatus throws for query k: the request is sent again
\* QueryRetry times while the query is observed, then the fetch ends.
StatusFails(k) ==
  /\ queries[k].inflight > 0
  /\ queries' = IF queries[k].failures < QueryRetry /\ queries[k].observers # {}
                   THEN [queries EXCEPT ![k].failures = @ + 1]
                   ELSE [queries EXCEPT ![k].inflight = @ - 1, ![k].failures = 0]
  /\ UNCHANGED <<clips, jobs, clipSeq, jobSeq, now, last, writers, watch, page, rest>>

\* ------------------------------------------------------------------ init
NoCall   == [op |-> "none", id |-> 0, result |-> "none"]
IdleWriter == [job |-> 0, state |-> "idle"]

Init ==
  /\ clips = <<>>
  /\ jobs = <<>>
  /\ clipSeq = 0
  /\ jobSeq = 0
  /\ now = 0
  /\ last = NoCall
  /\ writers = [w \in Writers |-> IdleWriter]
  /\ watch = NoWatch
  /\ page = NoPage
  /\ queries = [k \in QueryKeys |-> NoQuery]
  /\ records = NoRecords
  /\ recordSeq = 0
  /\ viewer = NoViewer

\* --------------------------------------------------- job lifecycle system
\* clipData of a clip that passes the constraints of video_clips.
ValidClipData == [duration_seconds |-> 30, processing_status |-> "pending"]

ProgressValues == {55, 101}

\* Upload forms that pass the validation of the upload page.
UploadForms == {[title |-> "Clip", is_public |-> FALSE],
                [title |-> "Clip", skill_level |-> "beginner", is_public |-> TRUE]}

NextJobs ==
  \/ \E ok \in BOOLEAN : CreateVideoClip(ValidClipData, ok)
  \/ \E f \in UploadForms, okClip, okJob \in BOOLEAN : InitiateVideoUpload(f, okClip, okJob)
  \/ \E c \in ClipIds : CreateProcessingJob(NewJobData(c))
  \/ \E c \in ClipIds, ok \in BOOLEAN : CompleteVideoUpload(c, ok)
  \/ \E j \in JobIds : ServiceStart(j)
  \/ \E j \in JobIds, p \in ProgressValues : ServiceProgress(j, p)
  \/ \E j \in JobIds : ServiceComplete(j)
  \/ \E j \in JobIds : ServiceFail(j)
  \/ \E j \in JobIds : ServiceCancel(j)

SpecJobs == Init /\ [][NextJobs]_vars

\* C1: once a job is completed, failed or cancelled, no later operation
\* changes any stored field of it, and a status-changing request that
\* reaches such a job (completeVideoUpload included) is rejected with a
\* StateTransitionError.
C1_TerminalJobIsFrozen ==
  [][ /\ \A j \in DOMAIN jobs :
           (jobs[j].status \in TerminalStatuses /\ j \in DOMAIN jobs') => jobs'[j] = jobs[j]
      /\ \A c \in ClipIds :
           ( /\ CompleteVideoUpload(c, TRUE)
             /\ \E j \in JobsOfClip(c) : jobs[j].job_type = "transcode"
                                         /\ jobs[j].status \in TerminalStatuses )
           => last'.result = "StateTransitionError" ]_vars

\* C7: for every valid form and file, initiateVideoUpload succeeds (the store
\* being available) and adds exactly one clip row and exactly one job row,
\* the job referring to the new clip, whose id is returned.
C7_UploadCreatesOneClipAndOneJob ==
  [][ \A f \in UploadForms :
        InitiateVideoUpload(f, TRUE, TRUE) =>
          /\ last'.result = "ok"
          /\ Cardinality(DOMAIN clips' \ DOMAIN clips) = 1
          /\ Cardinality(DOMAIN jobs' \ DOMAIN jobs) = 1
          /\ \A c \in DOMAIN clips' \ DOMAIN clips : last'.id = c
          /\ \A j \in DOMAIN jobs' \ DOMAIN jobs : jobs'[j].clip_id = last'.id ]_vars

\* C8: however often the job-creation step runs for one clip id and one job
\* type, the clip has at most one queued job of that type.
C8_AtMostOneQueuedJobPerType ==
  \A c \in DOMAIN clips, t \in JobTypes :
    Cardinality({j \in JobsOfClip(c) : jobs[j].job_type = t /\ jobs[j].status = "queued"}) <= 1

\* The jobs of one clip, from creation to their end.
NextProgress ==
  \/ \E ok \in BOOLEAN : clipSeq < 1 /\ CreateVideoClip(ValidClipData, ok)
  \/ \E c \in ClipIds : CreateProcessingJob(NewJobData(c))
  \/ \E c \in ClipIds, ok \in BOOLEAN : CompleteVideoUpload(c, ok)
  \/ \E j \in JobIds : ServiceStart(j)
  \/ \E j \in JobIds, p \in ProgressValues : ServiceProgress(j, p)
  \/ \E j \in JobIds : ServiceComplete(j)
  \/ \E j \in JobIds : ServiceFail(j)
  \/ \E j \in JobIds : ServiceCancel(j)

SpecProgress == Init /\ [][NextProgress]_vars

MaxOf(ids) ==
  IF ids = {} THEN 0 ELSE CHOOSE x \in ids : \A y \in ids : y <= x

LatestJob(c, t) == MaxOf({j \in JobsOfClip(c) : jobs[j].job_type = t})

\* C22: a failed job stays failed (a retry is a new job), and a clip whose
\* latest job of every required type is completed has processing_status
\* completed.
C22_RetryIsANewJob ==
  [][ /\ \A j \in DOMAIN jobs \cap DOMAIN jobs' :
           jobs[j].status = "failed" => jobs'[j].status = "failed"
      /\ \A c \in DOMAIN clips' :
           (\A t \in RequiredJobTypes :
              /\ LatestJob(c, t)' # 0
              /\ jobs'[LatestJob(c, t)'].status = "completed")
           => clips'[c].processing_status = "completed" ]_vars

\* C24: a job has an error_message exactly when its status is failed.
C24_ErrorMessageIffFailed ==
  \A j \in DOMAIN jobs :
    (jobs[j].error_message # NullText) <=> (jobs[j].status = "failed")

\* C25: completed_at is set exactly for completed, failed and cancelled
\* jobs; a running job has started_at and a queued job has not; a completed
\* job has progress_percentage 100.
C25_TimestampsAgreeWithStatus ==
  \A j \in DOMAIN jobs :
    /\ (jobs[j].completed_at # NullTs) <=> (jobs[j].status \in TerminalStatuses)
    /\ jobs[j].status = "running" => jobs[j].started_at # NullTs
    /\ jobs[j].status = "queued" => jobs[j].started_at = NullTs
    /\ jobs[j].status = "completed" => jobs[j].progress_percentage = 100

\* ------------------------------------------------- two concurrent writers
\* The two writers are the only processes that end a job here.
NextRace ==
  \/ \E ok \in BOOLEAN : CreateVideoClip(ValidClipData, ok)
  \/ \E c \in ClipIds : CreateProcessingJob(NewJobData(c))
  \/ \E c \in ClipIds, ok \in BOOLEAN : CompleteVideoUpload(c, ok)
  \/ \E j \in JobIds : ServiceStart(j)
  \/ \E j \in JobIds, p \in ProgressValues : ServiceProgress(j, p)
  \/ \E j \in JobIds : ReportOutcome(j)
  \/ \E w \in Writers : WriterCommit(w)

SpecRace == Init /\ [][NextRace]_vars

WriterDone(w) == writers[w].state \in {"applied", "rejected"}

\* C2: when both writers have tried to move the same running job (one to
\* completed, one to failed), exactly one write was applied and the other
\* rejected, and from then on the job has the status the winner wrote.
C2_ExactlyOneWriterWins ==
  (\A w \in Writers : WriterDone(w)) =>
    /\ Cardinality({w \in Writers : writers[w].state = "applied"}) = 1
    /\ \A w \in Writers :
         (writers[w].state = "applied" /\ writers[w].job \in DOMAIN jobs)
           => jobs[writers[w].job].status = WriterUpdate(w).status

\* ------------------------------------------------- clip lifecycle system
\* Every required job type has a completed job of clip c.
RequiredCompleted(c) ==
  \A t \in RequiredJobTypes :
    \E j \in JobsOfClip(c) : jobs[j].job_type = t /\ jobs[j].status = "completed"

\* VideoClipUpdate payloads sent to updateVideoClip.
ClipUpdates ==
  {[status |-> s] : s \in ClipStatuses}
    \cup {[processing_status |-> p] : p \in ProcessingStatuses}

QueuedJobData(c, t) == [clip_id |-> c, job_type |-> t, status |-> "queued"]

NextClips ==
  \/ \E ok \in BOOLEAN : clipSeq < 1 /\ CreateVideoClip(ValidClipData, ok)
  \/ \E c \in ClipIds, u \in ClipUpdates, ok \in BOOLEAN : UpdateVideoClip(c, u, ok)
  \/ \E c \in ClipIds, ok \in BOOLEAN : DeleteVideoClip(c, ok)
  \/ \E c \in ClipIds, t \in RequiredJobTypes : CreateProcessingJob(QueuedJobData(c, t))
  \/ \E j \in JobIds : ServiceStart(j)
  \/ \E j \in JobIds : ServiceComplete(j)
  \/ \E j \in JobIds : ServiceFail(j)

SpecClips == Init /\ [][NextClips]_vars

\* C3: a clip's processing_status is completed exactly when every required
\* job type (transcode, thumbnail, hls_generation) has a completed job of
\* that clip.
C3_ProcessingStatusReflectsJobs ==
  \A c \in DOMAIN clips :
    (clips[c].processing_status = "completed") <=> RequiredCompleted(c)

\* C4: a publish request for a clip with a required job type missing or not
\* completed returns NotReadyError and changes no field of the clip.
C4_PublishRefusedWhenNotReady ==
  [][ \A c \in DOMAIN clips :
        (UpdateVideoClip(c, [status |-> "published"], TRUE) /\ ~RequiredCompleted(c))
          => (last'.result = "NotReadyError" /\ clips' = clips) ]_vars

\* C5: a clip's status goes from draft or review to published only in a
\* state where its processing_status is completed.
C5_PublishedOnlyWhenProcessed ==
  [][ \A c \in DOMAIN clips \cap DOMAIN clips' :
        (clips[c].status \in {"draft", "review"} /\ clips'[c].status = "published")
          => clips[c].processing_status = "completed" ]_vars

\* C21: when a required job of a clip goes from running to failed the
\* clip's processing_status becomes failed, and a clip does not become
\* published while one of its required jobs is failed.
C21_FailedJobBlocksPublication ==
  [][ /\ \A j \in DOMAIN jobs \cap DOMAIN jobs' :
           ( /\ jobs[j].status = "running" /\ jobs'[j].status = "failed"
             /\ jobs[j].job_type \in RequiredJobTypes
             /\ jobs[j].clip_id \in DOMAIN clips' )
           => clips'[jobs[j].clip_id].processing_status = "failed"
      /\ \A c \in DOMAIN clips \cap DOMAIN clips' :
           ( /\ clips[c].status # "published" /\ clips'[c].status = "published"
             /\ \E j \in JobsOfClip(c) : /\ jobs[j].job_type \in RequiredJobTypes
                                          /\ jobs[j].status = "failed" )
           => FALSE ]_vars

NextPoll ==
  \/ \E ok \in BOOLEAN : clipSeq < 1 /\ CreateVideoClip(ValidClipData, ok)
  \/ \E c \in ClipIds : jobSeq < 1 /\ CreateProcessingJob(NewJobData(c))
  \/ \E c \in ClipIds, ok \in BOOLEAN : CompleteVideoUpload(c, ok)
  \/ \E j \in JobIds : ServiceStart(j)
  \/ \E j \in JobIds : ServiceComplete(j)
  \/ \E j \in JobIds : ServiceFail(j)
  \/ \E j \in JobIds : ServiceCancel(j)
  \/ \E j \in JobIds, enabled \in BOOLEAN : Mount(j, enabled)
  \/ \E enabled, stale \in BOOLEAN : SetEnabled(enabled, stale)
  \/ PollTick
  \/ FetchSucceeds
  \/ FetchFails
  \/ InvalidateVideoQueries
  \/ Unmount

SpecPoll == Init /\ [][NextPoll]_vars

\* A status request is sent in this step.
FetchIssued == watch'.job # 0 /\ watch'.req # watch.req

FetchStarted == FetchIssued /\ watch'.failures = 0

\* C18: while the watch stays disabled no status fetch is started for it;
\* the fetch that was in flight when it was disabled may end.
C18_NoFetchWhileDisabled ==
  [][ ( /\ watch.job # 0 /\ watch'.job = watch.job
        /\ ~watch.enabled /\ ~watch'.enabled )
      => ~FetchStarted ]_vars

\* The watch was disabled with a fetch in flight, and that fetch has
\* returned a status that is not terminal.
C18_Witness ==
  /\ watch.job # 0
  /\ ~watch.enabled
  /\ ~watch.fetching
  /\ ~watch.timer
  /\ watch.data \in {"queued", "running"}

\* C20: after the retries of a failing status fetch are used up and the
\* error is surfaced, the refetch interval starts no further fetch.
C20_NoPollAfterGivingUp ==
  [][ (watch.error /\ FetchIssued) => watch'.cause # "interval" ]_vars

NextTimeout ==
  \/ \E ok \in BOOLEAN : clipSeq < 1 /\ CreateVideoClip(ValidClipData, ok)
  \/ \E c \in ClipIds : jobSeq < 1 /\ CreateProcessingJob(NewJobData(c))
  \/ \E j \in JobIds : ServiceStart(j)
  \/ \E j \in JobIds : ServiceComplete(j)
  \/ \E j \in JobIds : now = 0 /\ Mount(j, TRUE)
  \/ PollTick
  \/ FetchSucceeds
  \/ FetchFails
  \/ Tick

SpecTimeout == Init /\ [][NextTimeout]_vars

\* Maximum wait of a watch, in clock readings.
MaxWait == MaxTime

\* C19: a step of the poller never changes a job record; and once the
\* maximum wait has elapsed with the watched job still queued or running,
\* the poller has stopped with a PollTimeoutError: it sends no further
\* status request.
C19_TimeoutStopsPolling ==
  [][ /\ watch' # watch => jobs' = jobs
      /\ ( /\ watch.job \in DOMAIN jobs
           /\ jobs[watch.job].status \in {"queued", "running"}
           /\ now >= MaxWait )
         => ~FetchIssued ]_vars

\* ---------------------------------------------------------- upload intake
TitleValues       == {"", "Clip", Text(100), Text(101)}
DescriptionValues == {Absent, Text(500), Text(501)}
SkillValues       == {Absent, "beginner", "expert"}

\* Values the form is submitted with.
SubmittedForms ==
  [title : TitleValues, description : DescriptionValues, skill_level : SkillValues]

NextIntake ==
  \/ \E i \in FileIds : AddFile(i)
  \/ \E i \in FileIds : RemoveFile(i)
  \/ \E f \in SubmittedForms : Submit(f)
  \/ \E i \in FileIds, okClip, okJob \in BOOLEAN : UploadReturns(i, okClip, okJob)

SpecIntake == Init /\ [][NextIntake]_vars

\* Fields of form f that the upload contract calls invalid: title empty or
\* longer than 100 characters, description longer than 500 characters,
\* skill_level outside the enum.
InvalidFields(f) ==
  {x \in {"title"} : f.title = "" \/ Len(f.title) > 100}
    \cup {x \in {"description"} : f.description # Absent /\ Len(f.description) > 500}
    \cup {x \in {"skill_level"} : f.skill_level # Absent /\ f.skill_level \notin SkillLevels}

DurationValues == {0, 1, 30, 31, 45}

\* clipData sent to createVideoClip.
ClipInserts == {[duration_seconds |-> d, processing_status |-> "pending"] : d \in DurationValues}

\* VideoClipUpdate payloads that set the duration.
DurationUpdates == {[duration_seconds |-> d] : d \in DurationValues}

\* The store is reachable throughout.
NextDurations ==
  \/ \E cd \in ClipInserts : CreateVideoClip(cd, TRUE)
  \/ \E f \in UploadForms : InitiateVideoUpload(f, TRUE, TRUE)
  \/ \E c \in ClipIds, u \in DurationUpdates : UpdateVideoClip(c, u, TRUE)
  \/ \E c \in ClipIds : DeleteVideoClip(c, TRUE)
  \/ Tick

SpecDurations == Init /\ [][NextDurations]_vars

EditUpdates ==
  {[status |-> st] : st \in ClipStatuses}
    \cup {[published_at |-> t] : t \in 0..1}
    \cup {[view_count |-> n] : n \in 0..1}

\* The store is reachable throughout.
NextEdits ==
  \/ \E ok \in BOOLEAN : clipSeq < 1 /\ CreateVideoClip(ValidClipData, ok)
  \/ \E c \in ClipIds, u \in EditUpdates : UpdateVideoClip(c, u, TRUE)
  \/ \E c \in ClipIds : DeleteVideoClip(c, TRUE)
  \/ \E c \in ClipIds : IncrementVideoViewCount(c, TRUE)
  \/ \E c \in ClipIds : IncrementVideoDownloadCount(c, TRUE)
  \/ \E c \in ClipIds : IncrementVideoBookmarkCount(c, TRUE)

SpecEdits == Init /\ [][NextEdits]_vars

\* C15: published_at is stamped when a clip becomes published for the first
\* time, changes at no other step, and once set is never cleared or changed.
C15_PublishedAtSetOnce ==
  [][ \A c \in DOMAIN clips \cap DOMAIN clips' :
        /\ ( /\ clips[c].status # "published" /\ clips'[c].status = "published"
             /\ clips[c].published_at = NullTs )
           => clips'[c].published_at # NullTs
        /\ clips[c].published_at # NullTs
             => clips'[c].published_at = clips[c].published_at
        /\ clips'[c].published_at # clips[c].published_at
             => (clips[c].status # "published" /\ clips'[c].status = "published") ]_vars

\* C16: the three counters of a clip never decrease, and a step that
\* changes one of them is its increment operation.
C16_CountersOnlyIncrement ==
  [][ \A c \in DOMAIN clips \cap DOMAIN clips' :
        /\ clips'[c].view_count >= clips[c].view_count
        /\ clips'[c].download_count >= clips[c].download_count
        /\ clips'[c].bookmark_count >= clips[c].bookmark_count
        /\ clips'[c].view_count # clips[c].view_count
             => last'.op = "incrementVideoViewCount"
        /\ clips'[c].download_count # clips[c].download_count
             => last'.op = "incrementVideoDownloadCount"
        /\ clips'[c].bookmark_count # clips[c].bookmark_count
             => last'.op = "incrementVideoBookmarkCount" ]_vars

\* ------------------------------------------------- archiving and reviving
\* Status changes and a publication timestamp sent to updateVideoClip.
ArchiveUpdates ==
  {[status |-> st] : st \in ClipStatuses} \cup {[published_at |-> 0]}

\* One clip with one job in any of its states; the store is reachable.
NextArchive ==
  \/ \E ok \in BOOLEAN : clipSeq < 1 /\ CreateVideoClip(ValidClipData, ok)
  \/ \E c \in ClipIds, u \in ArchiveUpdates : UpdateVideoClip(c, u, TRUE)
  \/ \E c \in ClipIds : jobSeq < 1 /\ CreateProcessingJob(NewJobData(c))
  \/ \E j \in JobIds : ServiceStart(j)
  \/ \E j \in JobIds : ServiceComplete(j)
  \/ \E j \in JobIds : ServiceFail(j)
  \/ \E j \in JobIds : ServiceCancel(j)
  \/ Tick

SpecArchive == Init /\ [][NextArchive]_vars

\* C26: updateVideoClip moving a published clip to archived, or an archived
\* clip to draft, succeeds whatever the jobs of the clip are, and leaves
\* published_at as it was.
C26_ArchiveAndReviveKeepPublishedAt ==
  [][ \A c \in DOMAIN clips :
        \A move \in {<<"published", "archived">>, <<"archived", "draft">>} :
          ( /\ clips[c].status = move[1]
            /\ UpdateVideoClip(c, [status |-> move[2]], TRUE) )
          => /\ last'.result = "ok"
             /\ clips'[c].status = move[2]
             /\ clips'[c].published_at = clips[c].published_at ]_vars

\* An archived clip that kept its publication timestamp, its job failed.
C26_Witness ==
  \E c \in DOMAIN clips :
    /\ clips[c].status = "archived"
    /\ clips[c].published_at # NullTs
    /\ last = [op |-> "updateVideoClip", id |-> c, result |-> "ok"]
    /\ \E j \in JobsOfClip(c) : jobs[j].status = "failed"

\* ---------------------------------------------- records that refer to clips
NextCascade ==
  \/ \E ok \in BOOLEAN : CreateVideoClip(ValidClipData, ok)
  \/ \E c \in ClipIds, ok \in BOOLEAN : DeleteVideoClip(c, ok)
  \/ \E c \in ClipIds : jobSeq < 1 /\ CreateProcessingJob(NewJobData(c))
  \/ \E c \in ClipIds, id \in {0} \cup RecordIds, ok \in BOOLEAN :
       UpsertVideoTranscript(c, id, ok)
  \/ \E c \in ClipIds, ok \in BOOLEAN : CreateVideoAnnotation(c, ok)
  \/ \E id \in RecordIds, ok \in BOOLEAN : DeleteVideoAnnotation(id, ok)
  \/ \E c \in ClipIds, ok \in BOOLEAN : CreateVideoBookmark(c, ok)
  \/ \E id \in RecordIds, ok \in BOOLEAN : DeleteVideoBookmark(id, ok)

SpecCascade == Init /\ [][NextCascade]_vars

\* C27: every job, transcript, annotation and bookmark refers to a clip
\* that exists, and deleteVideoClip leaves no record of the deleted clip.
C27_NoRecordOfAMissingClip ==
  /\ \A j \in DOMAIN jobs : jobs[j].clip_id \in DOMAIN clips
  /\ \A t \in RecordTables : \A r \in records[t] : r.clip_id \in DOMAIN clips

\* A clip that had a job was deleted, and its job with it, while another
\* clip keeps its bookmark.
C27_Witness ==
  /\ last.op = "deleteVideoClip" /\ last.result = "ok"
  /\ last.id \notin DOMAIN clips
  /\ jobSeq = 1 /\ jobs = <<>>
  /\ recordSeq = 2
  /\ \E r \in records["video_bookmarks"] : r.clip_id \in DOMAIN clips

\* ------------------------------------------------- the poller keeps going
\* One clip with one transcode job and one enabled watch; every status
\* request is answered, and an armed interval fires.
NextLive ==
  \/ clipSeq < 1 /\ CreateVideoClip(ValidClipData, TRUE)
  \/ \E c \in ClipIds : jobSeq < 1 /\ CreateProcessingJob(NewJobData(c))
  \/ \E c \in ClipIds : CompleteVideoUpload(c, TRUE)
  \/ \E j \in JobIds : ServiceStart(j)
  \/ \E j \in JobIds : ServiceComplete(j)
  \/ \E j \in JobIds : ServiceFail(j)
  \/ \E j \in JobIds : ServiceCancel(j)
  \/ \E j \in JobIds : Mount(j, TRUE)
  \/ PollTick
  \/ FetchSucceeds

SpecLive == Init /\ [][NextLive]_vars /\ WF_vars(PollTick) /\ WF_vars(FetchSucceeds)

\* C29: while the watch is enabled and the status fetched last is not a
\* terminal one (or nothing was fetched yet) the 2 s interval is armed; and
\* if the job ends in a terminal status, the poller ends with that status
\* as its data and its interval stopped.
C29_PollerObservesTerminalStatus ==
  /\ []( (watch.job # 0 /\ watch.enabled /\ RefetchInterval(watch.data))
           => watch.timer )
  /\ \A st \in TerminalStatuses :
       <>[](watch.job \in DOMAIN jobs /\ jobs[watch.job].status = st)
         => <>[](watch.data = st /\ ~watch.timer)

\* ----------------------------------------- what completeVideoUpload writes
FrameJobTypes == {"transcode", "thumbnail"}

\* Up to two clips and two jobs.
NextFrame ==
  \/ clipSeq < 2 /\ CreateVideoClip(ValidClipData, TRUE)
  \/ \E c \in ClipIds, t \in FrameJobTypes :
       jobSeq < 2 /\ CreateProcessingJob(QueuedJobData(c, t))
  \/ \E c \in ClipIds, ok \in BOOLEAN : CompleteVideoUpload(c, ok)
  \/ \E j \in JobIds : ServiceComplete(j)
  \/ Tick

SpecFrame == Init /\ [][NextFrame]_vars

\* The jobs completeVideoUpload(c) is aimed at.
TranscodeJobsOf(c) == {j \in JobsOfClip(c) : jobs[j].job_type = "transcode"}

\* Columns of a job row other than the given ones are the same in both rows.
SameExcept(old, new, columns) ==
  \A f \in DOMAIN old \ columns : new[f] = old[f]

\* C28 as stated: completeVideoUpload(c) changes only status and started_at
\* of the transcode jobs of clip c, and nothing else.
C28_OnlyStatusAndStartedAt ==
  [][ \A c \in ClipIds, ok \in BOOLEAN :
        CompleteVideoUpload(c, ok)
        => /\ clips' = clips
           /\ DOMAIN jobs' = DOMAIN jobs
           /\ \A j \in DOMAIN jobs :
                IF j \in TranscodeJobsOf(c)
                  THEN SameExcept(jobs[j], jobs'[j], {"status", "started_at"})
                  ELSE jobs'[j] = jobs[j] ]_vars

\* C28: completeVideoUpload(c) changes only status, started_at and
\* updated_at of the transcode jobs of clip c; the jobs of other clips, the
\* jobs of other types and every clip are left as they are.
C28_CompleteVideoUploadFrame ==
  [][ \A c \in ClipIds, ok \in BOOLEAN :
        CompleteVideoUpload(c, ok)
        => /\ clips' = clips
           /\ DOMAIN jobs' = DOMAIN jobs
           /\ \A j \in DOMAIN jobs :
                IF j \in TranscodeJobsOf(c)
                  THEN SameExcept(jobs[j], jobs'[j],
                                  {"status", "started_at", "updated_at"})
                  ELSE jobs'[j] = jobs[j] ]_vars

\* completeVideoUpload has started the transcode job of a clip at a later
\* clock reading than its creation, and a job it is not aimed at is still
\* queued and untouched.
C28_Witness ==
  /\ last.op = "completeVideoUpload" /\ last.result = "ok"
  /\ \E j \in DOMAIN jobs :
       /\ jobs[j].clip_id = last.id /\ jobs[j].job_type = "transcode"
       /\ jobs[j].status = "running"
       /\ jobs[j].started_at = now /\ jobs[j].updated_at = now /\ now > 0
  /\ \E j \in DOMAIN jobs :
       /\ (jobs[j].clip_id # last.id \/ jobs[j].job_type # "transcode")
       /\ jobs[j].status = "queued" /\ jobs[j].updated_at < now

\* -------------------------------------------------------- clip viewer page
NextViewer ==
  \/ \E ok \in BOOLEAN : clipSeq < 1 /\ CreateVideoClip(ValidClipData, ok)
  \/ \E c \in ClipIds : DeleteVideoClip(c, TRUE)
  \/ \E c \in ClipIds : OpenViewer(c)
  \/ ClipLoads
  \/ RunEffect
  \/ \E ok \in BOOLEAN : ViewCountSettles(ok)
  \/ CloseViewer

SpecViewer == Init /\ [][NextViewer]_vars

\* C30: during one page load of the clip viewer incrementVideoViewCount is
\* called no more than once, whatever renders follow the first call.
C30_ViewCountedOncePerPageLoad == viewer.calls <= 1

\* -------------------------------------------------- several watches at once
NextWatches ==
  \/ \E ok \in BOOLEAN : clipSeq < 1 /\ CreateVideoClip(ValidClipData, ok)
  \/ \E c \in ClipIds : CreateProcessingJob(NewJobData(c))
  \/ \E j \in JobIds : ServiceCancel(j)
  \/ \E o \in Observers, j \in JobIds, stale \in BOOLEAN : Subscribe(o, j, stale)
  \/ \E o \in Observers : Unsubscribe(o)
  \/ \E o \in Observers : IntervalFires(o)
  \/ \E k \in QueryKeys : StatusArrives(k)
  \/ \E k \in QueryKeys : StatusFails(k)

SpecWatches == Init /\ [][NextWatches]_vars

RECURSIVE InFlight(_)
InFlight(ks) ==
  IF ks = {} THEN 0
  ELSE LET k == CHOOSE x \in ks : TRUE IN queries[k].inflight + InFlight(ks \ {k})

\* Status requests in flight for job j, over all queries that fetch it.
RequestsInFlight(j) == InFlight({k \in QueryKeys : JobOfKey(k) = j})

\* C17: for every job id at most one status request is in flight, however
\* many hook instances watch it: a second watch joins the query of the
\* first; and a step of the query of one job leaves the queries of the other
\* jobs as they are.
C17_OnePollerPerJob ==
  [][ /\ \A j \in JobIds : RequestsInFlight(j)' <= 1
      /\ \A k1, k2 \in QueryKeys :
           (JobOfKey(k1) # JobOfKey(k2) /\ queries'[k1] # queries[k1])
             => queries'[k2] = queries[k2] ]_vars

\* Two instances watch the same job while one request for it is in flight.
C17_Witness ==
  \E j \in JobIds :
    /\ RequestsInFlight(j) = 1
    /\ \A o \in Observers : o \in queries[ProcessingKey(o, j)].observers

====
